---- MODULE Spec2Model ----
(***************************************************************************)
(* Model of the TI-89 style calculator: the command shell of               *)
(* ti89_calculator/cli.py (CalculatorShell on top of cmd.Cmd, run_cli,     *)
(* main) and the facade functions of ti89_calculator/engine.py.            *)
(*                                                                         *)
(* Text is a sequence of one-character strings.  A printed message is a    *)
(* flat sequence of strings: literal parts, characters and ANSI codes.     *)
(* The computer-algebra library (sympy) is an opaque collaborator: only    *)
(* the outcome of parsing a text (accepted or rejected) is modelled.       *)
(***************************************************************************)
EXTENDS Integers, Sequences, FiniteSets, TLC

VARIABLES
    pc,              \* position of the process: main, list, repl, done, crashed, or a function probe
    argv,            \* parsed command line: [command, script, no_color]
    use_color,       \* CalculatorShell.use_color
    colorama_ready,  \* module global _COLORAMA_READY
    prompt,          \* CalculatorShell.prompt
    intro,           \* CalculatorShell.intro
    queue,           \* run_cli: the commands not yet dispatched
    lastcmd,         \* cmd.Cmd.lastcmd
    line,            \* the line handed to onecmd by the last step
    log,             \* what the last step did: dispatches, handler entries, facade calls, prints
    exc,             \* the exception that left the last step, or "none"
    exited,          \* history: do_exit has run
    afterExit,       \* history: onecmd ran after do_exit had run
    fn_in,           \* input of the function under examination
    fn_out           \* its result

vars == <<pc, argv, use_color, colorama_ready, prompt, intro, queue, lastcmd,
          line, log, exc, exited, afterExit, fn_in, fn_out>>

shellVars == <<argv, use_color, colorama_ready, prompt, intro, queue, lastcmd,
               line, log, exc, exited, afterExit>>

----------------------------------------------------------------------------
(* Bounds *)

MaxRawLen == 4

MaxContentLen == 4

MaxCommands == 2

----------------------------------------------------------------------------
(* Text *)

NL == "\n"

Whitespace == {" ", "\t", NL}

Min(S) == CHOOSE x \in S : \A y \in S : x <= y

Max(S) == CHOOSE x \in S : \A y \in S : x >= y

\* str.strip()
Strip(s) ==
    LET keep == {i \in 1..Len(s) : s[i] \notin Whitespace}
    IN  IF keep = {} THEN <<>> ELSE SubSeq(s, Min(keep), Max(keep))

\* "c in s" for a one-character c
HasChar(s, c) == \E i \in 1..Len(s) : s[i] = c

\* s.startswith(p)
StartsWith(s, p) == Len(s) >= Len(p) /\ SubSeq(s, 1, Len(p)) = p

\* str.split(sep) for a one-character separator: always at least one field
RECURSIVE Split(_, _)
Split(s, sep) ==
    IF ~HasChar(s, sep) THEN <<s>>
    ELSE LET i == Min({j \in 1..Len(s) : s[j] = sep})
         IN  <<SubSeq(s, 1, i - 1)>> \o Split(SubSeq(s, i + 1, Len(s)), sep)

\* str.split(sep, 1)
SplitOnce(s, sep) ==
    IF ~HasChar(s, sep) THEN <<s>>
    ELSE LET i == Min({j \in 1..Len(s) : s[j] = sep})
         IN  <<SubSeq(s, 1, i - 1), SubSeq(s, i + 1, Len(s))>>

\* str.splitlines() for "\n" line ends: no trailing empty line
RECURSIVE SplitLines(_)
SplitLines(s) ==
    IF s = <<>> THEN <<>>
    ELSE IF ~HasChar(s, NL) THEN <<s>>
    ELSE LET i == Min({j \in 1..Len(s) : s[j] = NL})
         IN  <<SubSeq(s, 1, i - 1)>> \o SplitLines(SubSeq(s, i + 1, Len(s)))

MapStrip(ss) == [i \in 1..Len(ss) |-> Strip(ss[i])]

NonEmpty(s) == s # <<>>

\* all texts over an alphabet up to a length
RECURSIVE TextsUpTo(_, _)
TextsUpTo(alphabet, n) ==
    IF n = 0 THEN {<<>>}
    ELSE LET shorter == TextsUpTo(alphabet, n - 1)
         IN  shorter \cup {Append(t, c) : t \in shorter, c \in alphabet}

----------------------------------------------------------------------------
(* cli.py: _segment_arguments *)

segment_arguments_keeping_empties(raw) ==
    IF raw = <<>> THEN <<>> ELSE MapStrip(Split(raw, ";"))

segment_arguments(raw) ==
    IF raw = <<>> THEN <<>>
    ELSE SelectSeq(MapStrip(Split(raw, ";")), NonEmpty)

----------------------------------------------------------------------------
(* Words of the program text *)

T_eval == <<"e", "v", "a", "l">>

T_simplify == <<"s", "i", "m", "p", "l", "i", "f", "y">>

T_diff == <<"d", "i", "f", "f">>

T_integrate == <<"i", "n", "t", "e", "g", "r", "a", "t", "e">>

T_limit == <<"l", "i", "m", "i", "t">>

T_series == <<"s", "e", "r", "i", "e", "s">>

T_numeric == <<"n", "u", "m", "e", "r", "i", "c">>

T_solve == <<"s", "o", "l", "v", "e">>

T_matrix == <<"m", "a", "t", "r", "i", "x">>

T_script == <<"s", "c", "r", "i", "p", "t">>

T_exit == <<"e", "x", "i", "t">>

T_quit == <<"q", "u", "i", "t">>

T_help == <<"h", "e", "l", "p">>

T_shell == <<"s", "h", "e", "l", "l">>

T_EOF == <<"E", "O", "F">>

T_precision == <<"p", "r", "e", "c", "i", "s", "i", "o", "n">>

T_det == <<"d", "e", "t">>

T_determinant == <<"d", "e", "t", "e", "r", "m", "i", "n", "a", "n", "t">>

T_inv == <<"i", "n", "v">>

T_inverse == <<"i", "n", "v", "e", "r", "s", "e">>

T_rank == <<"r", "a", "n", "k">>

T_eigen == <<"e", "i", "g", "e", "n">>

T_eigenvals == <<"e", "i", "g", "e", "n", "v", "a", "l", "s">>

T_eigenvects == <<"e", "i", "g", "e", "n", "v", "e", "c", "t", "s">>

T_eigenvectors == <<"e", "i", "g", "e", "n", "v", "e", "c", "t", "o", "r", "s">>

T_rref == <<"r", "r", "e", "f">>

T_trace == <<"t", "r", "a", "c", "e">>

T_tr == <<"t", "r">>

\* <<lower, upper>> of every cased letter the inputs use
CasePairs == {<<"a", "A">>, <<"b", "B">>, <<"c", "C">>, <<"d", "D">>, <<"e", "E">>, <<"f", "F">>, <<"g", "G">>, <<"h", "H">>, <<"i", "I">>, <<"j", "J">>, <<"k", "K">>, <<"l", "L">>, <<"m", "M">>, <<"n", "N">>, <<"o", "O">>, <<"p", "P">>, <<"q", "Q">>, <<"r", "R">>, <<"s", "S">>, <<"t", "T">>, <<"u", "U">>, <<"v", "V">>, <<"w", "W">>, <<"x", "X">>, <<"y", "Y">>, <<"z", "Z">>}

\* str.lower(), character by character
LowerChar(c) ==
    IF \E p \in CasePairs : p[2] = c
    THEN (CHOOSE p \in CasePairs : p[2] = c)[1]
    ELSE c

Lower(s) == [i \in 1..Len(s) |-> LowerChar(s[i])]

UpperChar(c) ==
    IF \E p \in CasePairs : p[1] = c
    THEN (CHOOSE p \in CasePairs : p[1] = c)[2]
    ELSE c

Upper(s) == [i \in 1..Len(s) |-> UpperChar(s[i])]

Capitalize(s) == IF s = <<>> THEN s ELSE <<UpperChar(s[1])>> \o SubSeq(s, 2, Len(s))

\* p occurs in s as a contiguous run
IsInfix(p, s) ==
    \E i \in 0..(Len(s) - Len(p)) : SubSeq(s, i + 1, i + Len(p)) = p

Digits == <<"0", "1", "2", "3", "4", "5", "6", "7", "8", "9">>

DigitValue(c) == (CHOOSE i \in 1..10 : Digits[i] = c) - 1

IsDigit(c) == \E i \in 1..10 : Digits[i] = c

\* int(text) accepts a run of decimal digits; anything else is a ValueError
IsIntText(t) == Strip(t) # <<>> /\ \A i \in 1..Len(Strip(t)) : IsDigit(Strip(t)[i])

RECURSIVE DigitsValue(_)
DigitsValue(t) ==
    IF t = <<>> THEN 0
    ELSE 10 * DigitsValue(SubSeq(t, 1, Len(t) - 1)) + DigitValue(t[Len(t)])

IntOf(t) == DigitsValue(Strip(t))

----------------------------------------------------------------------------
(* engine.py *)

\* The outcome of a call: a value, or the exception that leaves it.
Returned(output, description) ==
    [exc |-> "none", msg |-> <<>>, output |-> output, description |-> description]

Raised(kind, msg) ==
    [exc |-> kind, msg |-> msg, output |-> <<>>, description |-> <<>>]

Count(t, c) == Cardinality({i \in 1..Len(t) : t[i] = c})

Balanced(t, open, close) ==
    /\ Count(t, open) = Count(t, close)
    /\ \A n \in 1..Len(t) :
          Count(SubSeq(t, 1, n), open) >= Count(SubSeq(t, 1, n), close)

\* sympy.sympify(text): the collaborator accepts a text or rejects it with
\* SympifyError.  It rejects the empty text, unbalanced brackets and the
\* characters that are no part of an expression.
Rejected == {";", "=", "#", "?", "!"}

SympifyAccepts(t) ==
    /\ Strip(t) # <<>>
    /\ \A i \in 1..Len(t) : t[i] \notin Rejected
    /\ Balanced(t, "(", ")")
    /\ Balanced(t, "[", "]")

sympify_expression(expression) ==
    IF SympifyAccepts(expression)
    THEN Returned(Strip(expression), <<>>)
    ELSE Raised("CalculatorError",
                <<"No se pudo interpretar la expresión: ">> \o expression)

\* a collaborator routine applied to parsed arguments
Apply(routine, args) == <<routine, "(">> \o args \o <<")">>

evaluate_expression(expression) ==
    LET expr == sympify_expression(expression)
    IN  IF expr.exc # "none" THEN expr
        ELSE Returned(Apply("simplify", expr.output), <<"Resultado simplificado">>)

simplify_expression(expression) ==
    LET expr == sympify_expression(expression)
    IN  IF expr.exc # "none" THEN expr
        ELSE Returned(Apply("simplify", expr.output), <<"Expresión simplificada">>)

differentiate_expression(expression, variable, order) ==
    LET expr == sympify_expression(expression)
    IN  IF expr.exc # "none" THEN expr
        ELSE Returned(Apply("diff", expr.output \o <<",">> \o variable \o <<",", ToString(order)>>),
                      <<"Derivada de orden ", ToString(order), " respecto a ">> \o variable)

\* lower and upper are parsed values, or <<>> for None
integrate_expression(expression, variable, lower, upper) ==
    LET expr == sympify_expression(expression)
    IN  IF expr.exc # "none" THEN expr
        ELSE IF lower = <<>> \/ upper = <<>>
        THEN Returned(Apply("integrate", expr.output \o <<",">> \o variable),
                      <<"Integral indefinida respecto a ">> \o variable)
        ELSE Returned(Apply("integrate", expr.output \o <<",">> \o variable
                                          \o <<",">> \o lower \o <<",">> \o upper),
                      <<"Integral definida respecto a ">> \o variable \o <<" en [">>
                          \o lower \o <<", ">> \o upper \o <<"]">>)

series_expansion(expression, variable, point, order) ==
    LET expr == sympify_expression(expression)
    IN  IF expr.exc # "none" THEN expr
        ELSE Returned(Apply("removeO", Apply("series",
                          expr.output \o <<",">> \o variable \o <<",">> \o point
                                      \o <<",", ToString(order)>>)),
                      <<"Serie de ">> \o variable \o <<" alrededor de ">> \o point
                          \o <<" hasta orden ", ToString(order)>>)

limit_expression(expression, variable, point, direction) ==
    LET expr == sympify_expression(expression)
    IN  IF expr.exc # "none" THEN expr
        ELSE Returned(Apply("limit", expr.output \o <<",">> \o variable \o <<",">> \o point
                                      \o <<",">> \o direction),
                      <<"Límite cuando ">> \o variable \o <<"→">> \o point
                          \o <<" (">> \o direction \o <<")">>)

\* substitutions: a sequence of <<key, parsed value>>, <<>> for None
RECURSIVE FlattenPairs(_)
FlattenPairs(pairs) ==
    IF pairs = <<>> THEN <<>>
    ELSE <<",">> \o pairs[1][1] \o <<":">> \o pairs[1][2] \o FlattenPairs(Tail(pairs))

numeric_evaluation(expression, substitutions, precision) ==
    LET expr == sympify_expression(expression)
    IN  IF expr.exc # "none" THEN expr
        ELSE Returned(Apply("N", expr.output \o FlattenPairs(substitutions)
                                  \o <<",", ToString(precision)>>),
                      <<"Evaluación numérica con precisión ", ToString(precision)>>)

\* _parse_equation: "lhs=rhs" or a bare expression
parse_equation(expr) ==
    IF HasChar(expr, "=")
    THEN LET sides == MapStrip(SplitOnce(expr, "="))
             left  == sympify_expression(sides[1])
             right == sympify_expression(sides[2])
         IN  IF left.exc # "none" THEN left
             ELSE IF right.exc # "none" THEN right
             ELSE Returned(Apply("Eq", left.output \o <<",">> \o right.output), <<>>)
    ELSE sympify_expression(expr)

RECURSIVE ParseEquations(_)
ParseEquations(equations) ==
    IF equations = <<>> THEN Returned(<<>>, <<>>)
    ELSE LET first == parse_equation(equations[1])
         IN  IF first.exc # "none" THEN first
             ELSE LET rest == ParseEquations(Tail(equations))
                  IN  IF rest.exc # "none" THEN rest
                      ELSE Returned(first.output \o <<";">> \o rest.output, <<>>)

RECURSIVE JoinComma(_)
JoinComma(ss) ==
    IF ss = <<>> THEN <<>> ELSE <<",">> \o ss[1] \o JoinComma(Tail(ss))

\* variables: a sequence of names, <<>> for None or for an empty list
solve_equations(equations, variables) ==
    LET eq_list == ParseEquations(equations)
    IN  IF eq_list.exc # "none" THEN eq_list
        ELSE Returned(Apply("solve", eq_list.output \o JoinComma(variables)),
                      <<"Solución del sistema">>)

\* _ensure_matrix for a text: sympify it, then sympy.Matrix(data), which
\* raises TypeError for data that is no list of rows
ensure_matrix(matrix) ==
    IF ~SympifyAccepts(matrix)
    THEN Raised("CalculatorError", <<"Formato de matriz inválido">>)
    ELSE IF Strip(matrix)[1] # "["
    THEN Raised("TypeError", <<"Data type not understood">>)
    ELSE Returned(Apply("Matrix", Strip(matrix)), <<>>)

MatrixOps ==
    {T_det, T_determinant, T_inv, T_inverse, T_rank, T_eigen, T_eigenvals,
     T_eigenvects, T_eigenvectors, T_rref, T_trace, T_tr}

matrix_operation_message_lowercased(operation, matrix) ==
    LET mat == ensure_matrix(matrix)
        op  == Lower(operation)
    IN  IF mat.exc # "none" THEN mat
        ELSE IF op \in MatrixOps THEN Returned(Apply("op", mat.output), <<"op">>)
        ELSE Raised("CalculatorError", <<"Operación de matriz desconocida: ">> \o op)

matrix_operation(operation, matrix) ==
    LET mat == ensure_matrix(matrix)
        op  == Lower(operation)
    IN  IF mat.exc # "none" THEN mat
        ELSE IF op = T_det \/ op = T_determinant
        THEN Returned(Apply("det", mat.output), <<"Determinante">>)
        ELSE IF op \in {T_inv, T_inverse}
        THEN Returned(Apply("inv", mat.output), <<"Matriz inversa">>)
        ELSE IF op = T_rank
        THEN Returned(Apply("rank", mat.output), <<"Rango">>)
        ELSE IF op \in {T_eigen, T_eigenvals}
        THEN Returned(Apply("eigenvals", mat.output), <<"Valores propios (λ: multiplicidad)">>)
        ELSE IF op \in {T_eigenvects, T_eigenvectors}
        THEN Returned(Apply("eigenvects", mat.output), <<"Vectores propios">>)
        ELSE IF op = T_rref
        THEN Returned(Apply("rref", mat.output), <<"Forma reducida por filas (matriz y pivotes)">>)
        ELSE IF op \in {T_trace, T_tr}
        THEN Returned(Apply("trace", mat.output), <<"Traza">>)
        ELSE Raised("CalculatorError", <<"Operación de matriz desconocida: ">> \o operation)

----------------------------------------------------------------------------
(* cli.py: _parse_key_values, _load_commands_from_file *)

\* _parse_key_values: the mapping as a sequence of <<key, value>> in order of
\* first insertion (a later pair with the same key replaces the value), or
\* the CalculatorError of the first pair without "="
RECURSIVE PutPair(_, _, _)
PutPair(mapping, key, value) ==
    IF mapping = <<>> THEN <<<<key, value>>>>
    ELSE IF mapping[1][1] = key THEN <<<<key, value>>>> \o Tail(mapping)
    ELSE <<mapping[1]>> \o PutPair(Tail(mapping), key, value)

RECURSIVE ParsePairs(_, _)
ParsePairs(pairs, mapping) ==
    IF pairs = <<>> THEN [exc |-> "none", msg |-> <<>>, mapping |-> mapping]
    ELSE IF ~HasChar(pairs[1], "=")
    THEN [exc |-> "CalculatorError",
          msg |-> <<"Argumento inválido, se esperaba clave=valor y se recibió '">>
                      \o pairs[1] \o <<"'">>,
          mapping |-> <<>>]
    ELSE LET kv == SplitOnce(pairs[1], "=")
         IN  ParsePairs(Tail(pairs), PutPair(mapping, Strip(kv[1]), Strip(kv[2])))

parse_key_values(pairs) == ParsePairs(pairs, <<>>)

KeptLine(l) == Strip(l) # <<>> /\ ~StartsWith(l, <<"#">>)

load_commands_from_file(content) ==
    MapStrip(SelectSeq(SplitLines(content), KeptLine))

----------------------------------------------------------------------------
(* The functions examined on their own: every input up to a bound *)

SegmentAlphabet == {" ", ";", "a", "b"}

ContentAlphabet == {" ", "#", "a", NL}

OperationInputs ==
    MatrixOps \cup {Capitalize(o) : o \in MatrixOps} \cup {Upper(o) : o \in MatrixOps}
        \cup {<<>>, <<"f", "o", "o">>, <<"F", "o", "o">>, <<"d", "e", "t", "s">>,
              <<"D", "e", "t", "s">>, <<"t", "r", " ">>, <<"X">>}

MatrixInputs == {<<"[", "[", "1", "]", "]">>, <<"[">>, <<"x">>, <<>>}

ShellIdle ==
    /\ argv = [command |-> <<>>, script |-> <<>>, no_color |-> FALSE]
    /\ use_color = FALSE
    /\ colorama_ready = FALSE
    /\ prompt = <<>>
    /\ intro = <<>>
    /\ queue = <<>>
    /\ lastcmd = <<>>
    /\ line = <<>>
    /\ log = <<>>
    /\ exc = "none"
    /\ exited = FALSE
    /\ afterExit = FALSE

InitSegment ==
    /\ pc = "call_segment_arguments"
    /\ fn_in \in TextsUpTo(SegmentAlphabet, MaxRawLen)
    /\ fn_out = <<>>
    /\ ShellIdle

CallSegment ==
    /\ pc = "call_segment_arguments"
    /\ fn_out' = segment_arguments(fn_in)
    /\ pc' = "ret_segment_arguments"
    /\ UNCHANGED <<fn_in, shellVars>>

SpecSegment == InitSegment /\ [][CallSegment]_vars

InitLoad ==
    /\ pc = "call_load_commands"
    /\ fn_in \in TextsUpTo(ContentAlphabet, MaxContentLen)
    /\ fn_out = <<>>
    /\ ShellIdle

CallLoad ==
    /\ pc = "call_load_commands"
    /\ fn_out' = load_commands_from_file(fn_in)
    /\ pc' = "ret_load_commands"
    /\ UNCHANGED <<fn_in, shellVars>>

SpecLoad == InitLoad /\ [][CallLoad]_vars

InitMatrix ==
    /\ pc = "call_matrix_operation"
    /\ fn_in \in OperationInputs \X MatrixInputs
    /\ fn_out = <<>>
    /\ ShellIdle

CallMatrix ==
    /\ pc = "call_matrix_operation"
    /\ fn_out' = matrix_operation(fn_in[1], fn_in[2])
    /\ pc' = "ret_matrix_operation"
    /\ UNCHANGED <<fn_in, shellVars>>

SpecMatrix == InitMatrix /\ [][CallMatrix]_vars

----------------------------------------------------------------------------
(* C10: _segment_arguments *)

\* the field (1, 2, ...) of raw that position i lies in
FieldOf(raw, i) == Count(SubSeq(raw, 1, i - 1), ";") + 1

\* the positions of raw that hold neither a separator nor whitespace
InkOf(raw) == {i \in 1..Len(raw) : raw[i] \notin Whitespace \cup {";"}}

NonBlankFields(raw) == {FieldOf(raw, i) : i \in InkOf(raw)}

\* the k-th smallest element of a set of numbers
Kth(S, k) == CHOOSE x \in S : Cardinality({y \in S : y < x}) = k - 1

\* field f of raw without its surrounding whitespace
TrimmedField(raw, f) ==
    LET ink == {i \in InkOf(raw) : FieldOf(raw, i) = f}
    IN  SubSeq(raw, Min(ink), Max(ink))

----------------------------------------------------------------------------
(* C6: _load_commands_from_file *)

\* C6 as claimed: no command queued from a script file is empty and none
\* starts with '#'.
C6_NoQueuedComment ==
    pc = "ret_load_commands" =>
        \A k \in 1..Len(fn_out) :
            fn_out[k] # <<>> /\ ~StartsWith(fn_out[k], <<"#">>)

----------------------------------------------------------------------------
(* C7: matrix_operation *)

Unrecognised(operation) == Lower(operation) \notin MatrixOps

\* C7 as claimed: every call with an unrecognised operation name raises a
\* domain error whose message holds the operation string as given.
C7_AnyMatrix ==
    (pc = "ret_matrix_operation" /\ Unrecognised(fn_in[1])) =>
        /\ fn_out.exc = "CalculatorError"
        /\ IsInfix(fn_in[1], fn_out.msg)
        /\ fn_out.output = <<>>

\* C7, amended: a call with an unrecognised operation name and a matrix
\* argument that converts to a matrix raises a domain error whose message
\* holds the operation string exactly as given, and returns no result.
C7_UnknownOperation ==
    (/\ pc = "ret_matrix_operation"
     /\ Unrecognised(fn_in[1])
     /\ ensure_matrix(fn_in[2]).exc = "none") =>
        /\ fn_out.exc = "CalculatorError"
        /\ IsInfix(fn_in[1], fn_out.msg)
        /\ fn_out.output = <<>>

C7_Witness ==
    /\ pc = "ret_matrix_operation"
    /\ fn_in = << <<"F", "o", "o">>, <<"[", "[", "1", "]", "]">> >>
    /\ fn_out.exc = "CalculatorError"

----------------------------------------------------------------------------
(* cli.py: what a step does, in order *)

Event(ev, name, args, nums, text) ==
    [ev |-> ev, name |-> name, args |-> args, nums |-> nums, text |-> text]

\* onecmd entered with a line; left by return or by an exception
Dispatch(l) == Event("onecmd", "onecmd", <<l>>, <<>>, <<>>)

Return(l) == Event("return", "onecmd", <<l>>, <<>>, <<>>)

Raise(l, kind) == Event("raise", kind, <<l>>, <<>>, <<>>)

Handler(name, arg) == Event("handler", name, <<arg>>, <<>>, <<>>)

\* a facade call: args are lists of texts (<<>> for None), nums the integers
Call(name, args, nums) == Event("call", name, args, nums, <<>>)

Printed(name, text) == Event("print", name, <<>>, <<>>, text)

\* colorama's escape sequences
Style_BRIGHT == "ESC[1m"

Style_RESET_ALL == "ESC[0m"

Fore_LIGHTBLUE_EX == "ESC[94m"

Fore_WHITE == "ESC[37m"

Fore_LIGHTRED_EX == "ESC[91m"

Fore_CYAN == "ESC[36m"

AnsiCodes ==
    {Style_BRIGHT, Style_RESET_ALL, Fore_LIGHTBLUE_EX, Fore_WHITE, Fore_LIGHTRED_EX, Fore_CYAN}

accent_always_styled(color, message) ==
    <<Style_BRIGHT, Fore_LIGHTBLUE_EX>> \o message \o <<Style_RESET_ALL>>

accent(color, message) ==
    IF ~color THEN message
    ELSE <<Style_BRIGHT, Fore_LIGHTBLUE_EX>> \o message \o <<Style_RESET_ALL>>

emphasis(color, message) ==
    IF ~color THEN message
    ELSE <<Style_BRIGHT, Fore_WHITE>> \o message \o <<Style_RESET_ALL>>

error(color, message) ==
    IF ~color THEN message
    ELSE <<Style_BRIGHT, Fore_LIGHTRED_EX>> \o message \o <<Style_RESET_ALL>>

muted(color, message) ==
    IF ~color THEN message
    ELSE <<Fore_CYAN>> \o message \o <<Style_RESET_ALL>>

\* "=" * len(header), one "=" for each part of the header
Rule(header) == [i \in 1..Len(header) |-> "="]

print_result(color, result) ==
    << Printed("blank", <<>>),
       Printed("header", accent(color, result.description)),
       Printed("rule", accent(color, Rule(result.description))),
       Printed("body", emphasis(color, IF Strip(result.output) # <<>>
                                     THEN result.output ELSE <<"0">>)),
       Printed("blank", <<>>) >>

print_error(color, message) ==
    << Printed("error", error(color, <<"Error: ">> \o message)) >>

print_hint(color, message) ==
    << Printed("hint", muted(color, message)) >>

\* What a handler did: its events, its return value (stop) and the exception
\* that left it ("none" when it returned).
Outcome(events, stop, kind) == [events |-> events, stop |-> stop, exc |-> kind]

\* try: result = facade(...); self._print_result(result)
\* except <caught> as exc: self._print_error(str(exc))
Guarded(color, call, result, caught) ==
    IF result.exc = "none"
    THEN Outcome(<<call>> \o print_result(color, result), FALSE, "none")
    ELSE IF result.exc \in caught
    THEN Outcome(<<call>> \o print_error(color, result.msg), FALSE, "none")
    ELSE Outcome(<<call>>, FALSE, result.exc)

\* sympy.sympify(text) in the shell: SympifyError is a ValueError
OnlyCalculatorError == {"CalculatorError"}

WithValueError == {"CalculatorError", "ValueError", "SympifyError"}

SympifyFailed(text) == <<"SympifyError: ">> \o text

IntFailed(text) == <<"invalid literal for int() with base 10: '">> \o text \o <<"'">>

T_x == <<"x">>

T_plus == <<"+">>

----------------------------------------------------------------------------
(* cli.py: the command handlers *)

default(color, l) ==
    IF Strip(l) = <<>> THEN Outcome(<<>>, FALSE, "none")
    ELSE Guarded(color, Call("evaluate_expression", << <<l>> >>, <<>>),
                 evaluate_expression(l), OnlyCalculatorError)

do_eval(color, arg) ==
    Guarded(color, Call("evaluate_expression", << <<arg>> >>, <<>>),
            evaluate_expression(arg), OnlyCalculatorError)

do_simplify(color, arg) ==
    Guarded(color, Call("simplify_expression", << <<arg>> >>, <<>>),
            simplify_expression(arg), OnlyCalculatorError)

do_diff(color, arg) ==
    LET pieces == segment_arguments(arg)
    IN  IF pieces = <<>>
        THEN Outcome(print_hint(color, <<"Uso: diff <expr>; [variable]; [orden]">>), FALSE, "none")
        ELSE LET expr     == pieces[1]
                 variable == IF Len(pieces) > 1 THEN pieces[2] ELSE T_x
             IN  IF Len(pieces) > 2 /\ ~IsIntText(pieces[3])
                 THEN Outcome(<<>>, FALSE, "ValueError")
                 ELSE LET order == IF Len(pieces) > 2 THEN IntOf(pieces[3]) ELSE 1
                      IN  Guarded(color,
                                  Call("differentiate_expression", << <<expr>>, <<variable>> >>, <<order>>),
                                  differentiate_expression(expr, variable, order),
                                  WithValueError)

do_integrate(color, arg) ==
    LET pieces == segment_arguments(arg)
    IN  IF pieces = <<>>
        THEN Outcome(print_hint(color,
                 <<"Uso: integrate <expr>; [variable]; [inferior]; [superior]">>), FALSE, "none")
        ELSE LET expr     == pieces[1]
                 variable == IF Len(pieces) > 1 THEN pieces[2] ELSE T_x
                 lower    == IF Len(pieces) > 2 THEN pieces[3] ELSE <<>>
                 upper    == IF Len(pieces) > 3 THEN pieces[4] ELSE <<>>
             IN  IF lower # <<>> /\ ~SympifyAccepts(lower)
                 THEN Outcome(print_error(color, SympifyFailed(lower)), FALSE, "none")
                 ELSE IF upper # <<>> /\ ~SympifyAccepts(upper)
                 THEN Outcome(print_error(color, SympifyFailed(upper)), FALSE, "none")
                 ELSE Guarded(color,
                              Call("integrate_expression",
                                   << <<expr>>, <<variable>>,
                                      IF lower = <<>> THEN <<>> ELSE <<lower>>,
                                      IF upper = <<>> THEN <<>> ELSE <<upper>> >>, <<>>),
                              integrate_expression(expr, variable, lower, upper),
                              WithValueError)

do_limit(color, arg) ==
    LET pieces == segment_arguments(arg)
    IN  IF Len(pieces) < 3
        THEN Outcome(print_hint(color,
                 <<"Uso: limit <expr>; <variable>; <punto>; [dirección]">>), FALSE, "none")
        ELSE LET expr      == pieces[1]
                 variable  == pieces[2]
                 point     == pieces[3]
                 direction == IF Len(pieces) > 3 THEN pieces[4] ELSE T_plus
             IN  IF ~SympifyAccepts(point)
                 THEN Outcome(print_error(color, SympifyFailed(point)), FALSE, "none")
                 ELSE Guarded(color,
                              Call("limit_expression",
                                   << <<expr>>, <<variable>>, <<point>>, <<direction>> >>, <<>>),
                              limit_expression(expr, variable, point, direction),
                              WithValueError)

do_series(color, arg) ==
    LET pieces == segment_arguments(arg)
    IN  IF Len(pieces) < 4
        THEN Outcome(print_hint(color,
                 <<"Uso: series <expr>; <variable>; <punto>; <orden>">>), FALSE, "none")
        ELSE LET expr     == pieces[1]
                 variable == pieces[2]
                 point    == pieces[3]
                 order    == pieces[4]
             IN  IF ~SympifyAccepts(point)
                 THEN Outcome(print_error(color, SympifyFailed(point)), FALSE, "none")
                 ELSE IF ~IsIntText(order)
                 THEN Outcome(print_error(color, IntFailed(order)), FALSE, "none")
                 ELSE Guarded(color,
                              Call("series_expansion",
                                   << <<expr>>, <<variable>>, <<point>> >>, <<IntOf(order)>>),
                              series_expansion(expr, variable, point, IntOf(order)),
                              WithValueError)

\* the loop over config.items(): precision and substitutions so far, or the
\* exception of the first value that does not convert
RECURSIVE NumericConfig(_, _, _)
NumericConfig(items, substitutions, precision) ==
    IF items = <<>>
    THEN [exc |-> "none", substitutions |-> substitutions, precision |-> precision]
    ELSE LET key   == items[1][1]
             value == items[1][2]
         IN  IF Lower(key) = T_precision
             THEN IF IsIntText(value)
                  THEN NumericConfig(Tail(items), substitutions, IntOf(value))
                  ELSE [exc |-> "ValueError", substitutions |-> <<>>, precision |-> precision]
             ELSE IF SympifyAccepts(value)
                  THEN NumericConfig(Tail(items),
                                     PutPair(substitutions, key, Strip(value)), precision)
                  ELSE [exc |-> "SympifyError", substitutions |-> <<>>, precision |-> precision]

DefaultPrecision == 15

RECURSIVE PairTexts(_)
PairTexts(pairs) ==
    IF pairs = <<>> THEN <<>> ELSE <<pairs[1][1], pairs[1][2]>> \o PairTexts(Tail(pairs))

NumericCall(color, expr, config) ==
    Guarded(color,
            Call("numeric_evaluation",
                 << <<expr>>, PairTexts(config.substitutions) >>, <<config.precision>>),
            numeric_evaluation(expr, config.substitutions, config.precision),
            WithValueError)

\* do_numeric with the key=value parsing inside the try: what it would do if
\* the CalculatorError of _parse_key_values were caught like the others
do_numeric_parsing_inside_try(color, arg) ==
    LET pieces == segment_arguments(arg)
    IN  IF pieces = <<>>
        THEN Outcome(print_hint(color,
                 <<"Uso: numeric <expr>; [x=valor; y=valor; precision=nn]">>), FALSE, "none")
        ELSE LET parsed == parse_key_values(Tail(pieces))
             IN  IF parsed.exc # "none"
                 THEN Outcome(print_error(color, parsed.msg), FALSE, "none")
                 ELSE LET config == NumericConfig(parsed.mapping, <<>>, DefaultPrecision)
                      IN  IF config.exc # "none"
                          THEN Outcome(<<>>, FALSE, config.exc)
                          ELSE NumericCall(color, pieces[1], config)

do_numeric(color, arg) ==
    LET pieces == segment_arguments(arg)
    IN  IF pieces = <<>>
        THEN Outcome(print_hint(color,
                 <<"Uso: numeric <expr>; [x=valor; y=valor; precision=nn]">>), FALSE, "none")
        ELSE LET parsed == parse_key_values(Tail(pieces))
             IN  IF parsed.exc # "none"
                 THEN Outcome(<<>>, FALSE, parsed.exc)
                 ELSE LET config == NumericConfig(parsed.mapping, <<>>, DefaultPrecision)
                      IN  IF config.exc # "none"
                          THEN Outcome(<<>>, FALSE, config.exc)
                          ELSE NumericCall(color, pieces[1], config)

do_solve(color, arg) ==
    LET pieces == segment_arguments(arg)
    IN  IF pieces = <<>>
        THEN Outcome(print_hint(color, <<"Uso: solve <eq>; [eq2; ...]; [x,y,...]">>), FALSE, "none")
        ELSE LET listed    == HasChar(pieces[Len(pieces)], ",")
                 variables == IF listed
                              THEN SelectSeq(MapStrip(Split(pieces[Len(pieces)], ",")), NonEmpty)
                              ELSE <<>>
                 equations == IF listed THEN SubSeq(pieces, 1, Len(pieces) - 1) ELSE pieces
             IN  IF equations = <<>>
                 THEN Outcome(print_hint(color, <<"Debe proporcionar al menos una ecuación.">>),
                              FALSE, "none")
                 ELSE Guarded(color,
                              Call("solve_equations", <<equations, variables>>, <<>>),
                              solve_equations(equations, variables),
                              OnlyCalculatorError)

do_matrix(color, arg) ==
    LET pieces == segment_arguments(arg)
    IN  IF Len(pieces) < 2
        THEN Outcome(print_hint(color, <<"Uso: matrix <operación>; <matriz>">>), FALSE, "none")
        ELSE Guarded(color,
                     Call("matrix_operation", << <<pieces[1]>>, <<pieces[2]>> >>, <<>>),
                     matrix_operation(pieces[1], pieces[2]),
                     OnlyCalculatorError)

do_exit(color, arg) ==
    Outcome(<<Printed("bye", accent(color, <<"Hasta pronto">>))>>, TRUE, "none")

\* cmd.Cmd.do_help, inherited: writes the help text, unstyled
do_help(color, arg) ==
    Outcome(<<Printed("help", <<"Documented commands (type help <topic>):">>)>>, FALSE, "none")

----------------------------------------------------------------------------
(* The files on disk.  No file holds a script command.                     *)

File_f == <<"#", " ", "c", "\n", "\n", "e", "v", "a", "l", " ", "x", "\n", " ", " ", "#", " ", "d", "\n", " ", "e", "x", "i", "t", " ", "\n", "x", "\n">>

File_g == <<"n", "u", "m", "e", "r", "i", "c", " ", "x", ";", "5", "\n", "e", "v", "a", "l", " ", "x">>

File_h == <<"#", "\n", "\n", " ", "\n">>

FileNames == {<<"f">>, <<"g">>, <<"h">>}

\* Path(name).read_text(encoding="utf8")
read_text(name) ==
    IF name = <<"f">> THEN File_f ELSE IF name = <<"g">> THEN File_g ELSE File_h

\* Path(name).exists()
exists(name) == name \in FileNames

----------------------------------------------------------------------------
(* cmd.Cmd: parseline, onecmd, emptyline; CalculatorShell.do_script *)

\* cmd.IDENTCHARS
IdentChars == {"a", "b", "c", "d", "e", "f", "g", "h", "i", "j", "k", "l", "m", "n", "o", "p", "q", "r", "s", "t", "u", "v", "w", "x", "y", "z", "A", "B", "C", "D", "E", "F", "G", "H", "I", "J", "K", "L", "M", "N", "O", "P", "Q", "R", "S", "T", "U", "V", "W", "X", "Y", "Z", "0", "1", "2", "3", "4", "5", "6", "7", "8", "9", "_"}

\* the length of the longest prefix of l made of identifier characters
IdentPrefix(l) ==
    IF \A i \in 1..Len(l) : l[i] \in IdentChars THEN Len(l)
    ELSE Min({i \in 1..Len(l) : l[i] \notin IdentChars}) - 1

\* parseline: (cmd, arg, line); none stands for cmd = None.  The shell has
\* no do_shell.
parseline(l) ==
    LET stripped == Strip(l)
    IN  IF stripped = <<>>
        THEN [none |-> TRUE, cmd |-> <<>>, arg |-> <<>>, line |-> stripped]
        ELSE IF stripped[1] = "!"
        THEN [none |-> TRUE, cmd |-> <<>>, arg |-> <<>>, line |-> stripped]
        ELSE LET full == IF stripped[1] = "?"
                         THEN T_help \o <<" ">> \o Tail(stripped)
                         ELSE stripped
                 i    == IdentPrefix(full)
             IN  [none |-> FALSE,
                  cmd  |-> SubSeq(full, 1, i),
                  arg  |-> Strip(SubSeq(full, i + 1, Len(full))),
                  line |-> full]

\* the names cmd for which the shell has a method do_<cmd>
Commands ==
    {T_eval, T_simplify, T_diff, T_integrate, T_limit, T_series, T_numeric,
     T_solve, T_matrix, T_script, T_exit, T_quit, T_help}

\* What onecmd did: events, return value, exception, and lastcmd afterwards
Ran(r, last) ==
    [events |-> r.events, stop |-> r.stop, exc |-> r.exc, lastcmd |-> last]

\* events of one onecmd(l) around what it ran
Around(l, entered, r) ==
    [events  |-> <<Dispatch(l)>> \o entered \o r.events
                    \o (IF r.exc = "none" THEN <<Return(l)>> ELSE <<Raise(l, r.exc)>>),
     stop    |-> r.stop,
     exc     |-> r.exc,
     lastcmd |-> r.lastcmd]

RECURSIVE onecmd(_, _, _)
RECURSIVE ScriptLoop(_, _, _, _)

\* the for loop of do_script over the lines left, after the events so far
ScriptLoop(color, last, lines, done) ==
    IF lines = <<>> THEN [events |-> done, stop |-> FALSE, exc |-> "none", lastcmd |-> last]
    ELSE LET l == Strip(lines[1])
         IN  IF l = <<>> \/ StartsWith(l, <<"#">>)
             THEN ScriptLoop(color, last, Tail(lines), done)
             ELSE LET echo == Printed("echo", accent(color, <<"→ ">> \o l))
                      r    == onecmd(color, last, l)
                  IN  IF r.exc # "none"
                      THEN [events |-> done \o <<echo>> \o r.events, stop |-> FALSE,
                            exc |-> r.exc, lastcmd |-> r.lastcmd]
                      ELSE ScriptLoop(color, r.lastcmd, Tail(lines),
                                      done \o <<echo>> \o r.events)

do_script(color, last, arg) ==
    IF arg = <<>>
    THEN Ran(Outcome(print_hint(color, <<"Uso: script <archivo>">>), FALSE, "none"), last)
    ELSE IF ~exists(arg)
    THEN Ran(Outcome(print_error(color, <<"Archivo no encontrado: ">> \o arg), FALSE, "none"), last)
    ELSE ScriptLoop(color, last, SplitLines(read_text(arg)), <<>>)

\* getattr(self, "do_" + cmd)(arg)
RunCommand(color, last, cmd, arg) ==
    IF cmd = T_eval THEN Ran(do_eval(color, arg), last)
    ELSE IF cmd = T_simplify THEN Ran(do_simplify(color, arg), last)
    ELSE IF cmd = T_diff THEN Ran(do_diff(color, arg), last)
    ELSE IF cmd = T_integrate THEN Ran(do_integrate(color, arg), last)
    ELSE IF cmd = T_limit THEN Ran(do_limit(color, arg), last)
    ELSE IF cmd = T_series THEN Ran(do_series(color, arg), last)
    ELSE IF cmd = T_numeric THEN Ran(do_numeric(color, arg), last)
    ELSE IF cmd = T_solve THEN Ran(do_solve(color, arg), last)
    ELSE IF cmd = T_matrix THEN Ran(do_matrix(color, arg), last)
    ELSE IF cmd = T_script THEN do_script(color, last, arg)
    ELSE IF cmd \in {T_exit, T_quit} THEN Ran(do_exit(color, arg), last)
    ELSE Ran(do_help(color, arg), last)

\* the method found for cmd; do_quit is do_exit
HandlerName(cmd) ==
    IF cmd = T_eval THEN "do_eval"
    ELSE IF cmd = T_simplify THEN "do_simplify"
    ELSE IF cmd = T_diff THEN "do_diff"
    ELSE IF cmd = T_integrate THEN "do_integrate"
    ELSE IF cmd = T_limit THEN "do_limit"
    ELSE IF cmd = T_series THEN "do_series"
    ELSE IF cmd = T_numeric THEN "do_numeric"
    ELSE IF cmd = T_solve THEN "do_solve"
    ELSE IF cmd = T_matrix THEN "do_matrix"
    ELSE IF cmd = T_script THEN "do_script"
    ELSE IF cmd \in {T_exit, T_quit} THEN "do_exit"
    ELSE "do_help"

onecmd(color, last, l) ==
    LET p == parseline(l)
    IN  IF p.line = <<>>
        THEN IF last # <<>>
             THEN Around(l, <<Handler("emptyline", <<>>)>>, onecmd(color, last, last))
             ELSE Around(l, <<Handler("emptyline", <<>>)>>,
                         Ran(Outcome(<<>>, FALSE, "none"), last))
        ELSE IF p.none
        THEN Around(l, <<Handler("default", p.line)>>, Ran(default(color, p.line), last))
        ELSE LET kept == IF p.line = T_EOF THEN <<>> ELSE p.line
             IN  IF p.cmd = <<>> \/ p.cmd \notin Commands
                 THEN Around(l, <<Handler("default", p.line)>>,
                             Ran(default(color, p.line), kept))
                 ELSE Around(l, <<Handler(HandlerName(p.cmd), p.arg)>>,
                             RunCommand(color, kept, p.cmd, p.arg))

----------------------------------------------------------------------------
(* The inputs *)

\* the lines typed at the prompt; EOF is what cmdloop makes of end of input
Lines ==
    {
     <<>>,
     <<" ">>,
     <<"x">>,
     <<" ", "x", " ">>,
     <<"(">>,
     <<"d", "i", "f", "f", "(", "x", ")">>,
     <<"!", "x">>,
     <<"?">>,
     <<"h", "e", "l", "p">>,
     <<"E", "O", "F">>,
     <<"e", "v", "a", "l">>,
     <<"e", "v", "a", "l", " ", "x">>,
     <<"e", "v", "a", "l", " ", "(">>,
     <<"s", "i", "m", "p", "l", "i", "f", "y">>,
     <<"s", "i", "m", "p", "l", "i", "f", "y", " ", "x">>,
     <<"d", "i", "f", "f">>,
     <<"d", "i", "f", "f", " ", "x">>,
     <<"d", "i", "f", "f", " ", "x", ";", "y", ";", "2">>,
     <<"d", "i", "f", "f", " ", "x", ";", "y", ";", "z">>,
     <<"d", "i", "f", "f", " ", ";">>,
     <<"i", "n", "t", "e", "g", "r", "a", "t", "e">>,
     <<"i", "n", "t", "e", "g", "r", "a", "t", "e", " ", "x", ";", "y", ";", "0", ";", "1">>,
     <<"i", "n", "t", "e", "g", "r", "a", "t", "e", " ", "x", ";", "y", ";", "(">>,
     <<"l", "i", "m", "i", "t", " ", "x", ";", "y">>,
     <<"l", "i", "m", "i", "t", " ", "x", ";", "y", ";", "0">>,
     <<"l", "i", "m", "i", "t", " ", "x", ";", "y", ";", "0", ";", "-">>,
     <<"s", "e", "r", "i", "e", "s", " ", "x", ";", "y", ";", "0">>,
     <<"s", "e", "r", "i", "e", "s", " ", "x", ";", "y", ";", "0", ";", "3">>,
     <<"s", "e", "r", "i", "e", "s", " ", "x", ";", "y", ";", "0", ";", "z">>,
     <<"n", "u", "m", "e", "r", "i", "c">>,
     <<"n", "u", "m", "e", "r", "i", "c", " ", "x">>,
     <<"n", "u", "m", "e", "r", "i", "c", " ", "x", ";", "5">>,
     <<"n", "u", "m", "e", "r", "i", "c", " ", "x", ";", "a", "=", "1", ";", "p", "r", "e", "c", "i", "s", "i", "o", "n", "=", "9">>,
     <<"n", "u", "m", "e", "r", "i", "c", " ", "x", ";", "p", "r", "e", "c", "i", "s", "i", "o", "n", "=", "z">>,
     <<"s", "o", "l", "v", "e">>,
     <<"s", "o", "l", "v", "e", " ", "x", "=", "1">>,
     <<"s", "o", "l", "v", "e", " ", "x", ";", "y", ";", "x", ",", "y">>,
     <<"s", "o", "l", "v", "e", " ", "x", ",", "y">>,
     <<"s", "o", "l", "v", "e", " ", "x", "+", "y", ";", "x">>,
     <<"s", "o", "l", "v", "e", " ", "x", ";", "f", "(", "x", ",", "y", ")">>,
     <<"m", "a", "t", "r", "i", "x", " ", "d", "e", "t">>,
     <<"m", "a", "t", "r", "i", "x", " ", "d", "e", "t", ";", "[", "[", "1", "]", "]">>,
     <<"m", "a", "t", "r", "i", "x", " ", "F", "o", "o", ";", "[", "[", "1", "]", "]">>,
     <<"m", "a", "t", "r", "i", "x", " ", "F", "o", "o", ";", "[">>,
     <<"m", "a", "t", "r", "i", "x", " ", "d", "e", "t", ";", "x">>,
     <<"s", "c", "r", "i", "p", "t">>,
     <<"s", "c", "r", "i", "p", "t", " ", "f">>,
     <<"s", "c", "r", "i", "p", "t", " ", "g">>,
     <<"s", "c", "r", "i", "p", "t", " ", "h">>,
     <<"s", "c", "r", "i", "p", "t", " ", "n">>,
     <<"e", "x", "i", "t">>,
     <<"q", "u", "i", "t">> }

\* the texts given to --command
CommandArgs ==
    {
     <<"e", "v", "a", "l", " ", "x">>,
     <<"e", "x", "i", "t">>,
     <<"n", "u", "m", "e", "r", "i", "c", " ", "x", ";", "5">>,
     <<>>,
     <<" ", "x">> }

\* the paths given to --script; <<"n">> names no file
ScriptArgs == {<<"f">>, <<"g">>, <<"h">>, <<"n">>}

RECURSIVE SeqsUpTo(_, _)
SeqsUpTo(S, n) ==
    IF n = 0 THEN {<<>>}
    ELSE LET shorter == SeqsUpTo(S, n - 1)
         IN  shorter \cup {Append(q, x) : q \in shorter, x \in S}

----------------------------------------------------------------------------
(* cli.py: main, run_cli, cmdloop *)

IntroText == <<"Calculadora científica estilo TI-89. Escriba 'help' para ver los comandos disponibles.">>

PromptText == <<"ti89> ">>

ExitRan(events) ==
    \E i \in 1..Len(events) : events[i].ev = "handler" /\ events[i].name = "do_exit"

\* onecmd entered after do_exit had run (before: it had run in an earlier step)
DispatchedAfterExit(events, before) ==
    \E i \in 1..Len(events) :
        /\ events[i].ev = "onecmd"
        /\ \/ before
           \/ \E j \in 1..(i - 1) : events[j].ev = "handler" /\ events[j].name = "do_exit"

Init ==
    /\ pc = "main"
    /\ argv \in [command : SeqsUpTo(CommandArgs, MaxCommands),
                 script : ScriptArgs \cup {<<>>},
                 no_color : BOOLEAN]
    /\ use_color = FALSE
    /\ colorama_ready = FALSE
    /\ prompt = <<>>
    /\ intro = <<>>
    /\ queue = <<>>
    /\ lastcmd = <<>>
    /\ line = <<>>
    /\ log = <<>>
    /\ exc = "none"
    /\ exited = FALSE
    /\ afterExit = FALSE
    /\ fn_in = <<>>
    /\ fn_out = <<>>

\* main: the commands of --command, then those of the --script file;
\* run_cli(commands or None, use_color=not args.no_color) constructs the
\* shell and starts the loop over the commands, or cmdloop, which writes the
\* intro
Main ==
    /\ pc = "main"
    /\ IF argv.script # <<>> /\ ~exists(argv.script)
       THEN /\ pc' = "crashed"
            /\ exc' = "FileNotFoundError"
            /\ UNCHANGED <<use_color, colorama_ready, prompt, intro, queue, log>>
       ELSE LET commands == argv.command \o
                                (IF argv.script # <<>>
                                 THEN load_commands_from_file(read_text(argv.script))
                                 ELSE <<>>)
                color    == ~argv.no_color
            IN  /\ use_color' = color
                /\ colorama_ready' = (colorama_ready \/ color)
                /\ prompt' = accent(color, PromptText)
                /\ intro' = accent(color, IntroText)
                /\ queue' = commands
                /\ pc' = IF commands # <<>> THEN "list" ELSE "repl"
                /\ log' = IF commands # <<>> THEN <<>>
                          ELSE <<Printed("intro", accent(color, IntroText))>>
                /\ exc' = "none"
    /\ UNCHANGED <<argv, lastcmd, line, exited, afterExit, fn_in, fn_out>>

\* run_cli: shell.onecmd(command) for the next command; the return value is
\* dropped; an exception ends the process
ListStep ==
    /\ pc = "list"
    /\ queue # <<>>
    /\ \E r \in {onecmd(use_color, lastcmd, Head(queue))} :
           /\ line' = Head(queue)
           /\ log' = r.events
           /\ lastcmd' = r.lastcmd
           /\ exc' = r.exc
           /\ exited' = (exited \/ ExitRan(r.events))
           /\ afterExit' = (afterExit \/ DispatchedAfterExit(r.events, exited))
           /\ queue' = Tail(queue)
           /\ pc' = IF r.exc # "none" THEN "crashed"
                    ELSE IF Tail(queue) = <<>> THEN "done" ELSE "list"
    /\ UNCHANGED <<argv, use_color, colorama_ready, prompt, intro, fn_in, fn_out>>

\* cmdloop: one round of  line = input(self.prompt); stop = self.onecmd(line).
\* r is the one outcome of that onecmd.
ReplStep ==
    /\ pc = "repl"
    /\ \E typed \in Lines :
          \E r \in {onecmd(use_color, lastcmd, typed)} :
              /\ line' = typed
              /\ log' = <<Printed("prompt", prompt)>> \o r.events
              /\ lastcmd' = r.lastcmd
              /\ exc' = r.exc
              /\ exited' = (exited \/ ExitRan(r.events))
              /\ afterExit' = (afterExit \/ DispatchedAfterExit(r.events, exited))
              /\ pc' = IF r.exc # "none" THEN "crashed"
                       ELSE IF r.stop THEN "done" ELSE "repl"
    /\ UNCHANGED <<argv, use_color, colorama_ready, prompt, intro, queue, fn_in, fn_out>>

Next == Main \/ ListStep \/ ReplStep

Spec == Init /\ [][Next]_vars

TypeOK ==
    /\ pc \in {"main", "list", "repl", "done", "crashed"}
    /\ use_color \in BOOLEAN
    /\ exc \in {"none", "CalculatorError", "ValueError", "SympifyError", "TypeError",
                "FileNotFoundError"}

----------------------------------------------------------------------------
(* Reading the log of a step *)

IsHandler(e) == e.ev = "handler"

IsCall(e) == e.ev = "call"

IsPrint(e) == e.ev = "print"

\* what the user sees and what the facade is asked: prints and calls
IsVisible(e) == e.ev = "call" \/ (e.ev = "print" /\ e.name \notin {"prompt", "intro"})

Handlers(events) == SelectSeq(events, IsHandler)

Visible(events) == SelectSeq(events, IsVisible)

Has(events, ev, name) ==
    \E i \in 1..Len(events) : events[i].ev = ev /\ events[i].name = name

HasEv(events, ev) == \E i \in 1..Len(events) : events[i].ev = ev

\* a step has dispatched the line
Stepped == pc \in {"list", "repl", "done", "crashed"} /\ HasEv(log, "onecmd")

\* the step ran exactly one handler: the one the line itself selects
DirectStep == Stepped /\ Len(Handlers(log)) = 1

\* the line up to its first whitespace
FirstWord(l) ==
    LET s == Strip(l)
    IN  IF \A i \in 1..Len(s) : s[i] \notin Whitespace THEN s
        ELSE SubSeq(s, 1, Min({i \in 1..Len(s) : s[i] \in Whitespace}) - 1)

----------------------------------------------------------------------------
(* C1: domain errors stay inside the handler *)

\* C1 as claimed: no CalculatorError leaves a handler: no onecmd is left by
\* one, and the shell is not ended by one.
C1_DomainErrorCaught ==
    /\ exc # "CalculatorError"
    /\ ~Has(log, "raise", "CalculatorError")

----------------------------------------------------------------------------
(* C2: exit and quit *)

\* C2 as claimed: once do_exit has run the shell is terminated, and no
\* command is dispatched after it.
C2_ExitTerminates ==
    /\ exited => pc = "done"
    /\ ~afterExit

----------------------------------------------------------------------------
(* C3: too few fields *)

\* the least number of fields of each command that takes arguments
MinFields(name) ==
    IF name = "do_limit" THEN 3
    ELSE IF name = "do_series" THEN 4
    ELSE IF name = "do_matrix" THEN 2
    ELSE 1

TakesArguments ==
    {"do_eval", "do_simplify", "do_diff", "do_integrate", "do_limit", "do_series",
     "do_numeric", "do_solve", "do_matrix", "do_script"}

\* the step ran one handler, of a command that takes arguments, with fewer
\* non-blank fields than its minimum
TooFewFields ==
    /\ DirectStep
    /\ Handlers(log)[1].name \in TakesArguments
    /\ Cardinality(NonBlankFields(Handlers(log)[1].args[1])) < MinFields(Handlers(log)[1].name)

\* C3 as claimed: a command given too few fields prints a usage hint, calls
\* no facade function, prints no error and raises nothing.
C3_UsageHint ==
    TooFewFields =>
        /\ Has(log, "print", "hint")
        /\ ~HasEv(log, "call")
        /\ ~Has(log, "print", "error")
        /\ exc = "none"

----------------------------------------------------------------------------
(* C4: the bare-expression fallback *)

\* the line is a command: its first word is a command name.  help and the
\* "?" shorthand of cmd.Cmd are counted as commands here.
IsCommandLine(l) ==
    \/ FirstWord(l) \in Commands
    \/ Strip(l)[1] = "?"

\* C4 as claimed, surrounding whitespace aside: a non-blank line that is no
\* command goes to the fallback, which hands the whole line to
\* evaluate_expression and prints its result or its error.
C4_BareExpression ==
    (Stepped /\ Strip(line) # <<>> /\ ~IsCommandLine(line)) =>
        /\ Handlers(log)[1].name = "default"
        /\ \E i \in 1..Len(log) :
              /\ log[i].ev = "call"
              /\ log[i].name = "evaluate_expression"
              /\ log[i].args = << <<Strip(line)>> >>
        /\ Has(log, "print", "body") \/ Has(log, "print", "error")

----------------------------------------------------------------------------
(* C5: the script command *)

\* the lines of a file that are commands: trimmed, not empty, not a comment
IsCommandText(l) == l # <<>> /\ l[1] # "#"

ScriptCommands(name) == SelectSeq(MapStrip(SplitLines(read_text(name))), IsCommandText)

\* echo, dispatch and completion of each command, in order
RECURSIVE Replay(_, _)
Replay(color, commands) ==
    IF commands = <<>> THEN <<>>
    ELSE << Printed("echo", accent(color, <<"→ ">> \o commands[1])),
            Dispatch(commands[1]),
            Return(commands[1]) >> \o Replay(color, Tail(commands))

IsReplayEvent(e) ==
    e.ev \in {"onecmd", "return", "raise"} \/ (e.ev = "print" /\ e.name = "echo")

\* the step is the script command itself, on an existing file
ScriptStep ==
    /\ Stepped
    /\ Handlers(log)[1].name = "do_script"
    /\ exists(Handlers(log)[1].args[1])

\* C5 as claimed: script echoes and dispatches exactly the command lines of
\* the file, in file order, each completing before the next is echoed.
C5_ScriptReplay ==
    ScriptStep =>
        LET trace == SelectSeq(log, IsReplayEvent)
        IN  SubSeq(trace, 2, Len(trace) - 1)
                = Replay(use_color, ScriptCommands(Handlers(log)[1].args[1]))

----------------------------------------------------------------------------
(* C8: no state between commands *)

\* C8 as claimed: whatever was processed before, a line gives the calls and
\* the output it gives in a fresh shell with the same color setting.
C8_NoHistory ==
    Stepped => Visible(log) = Visible(onecmd(use_color, <<>>, line).events)

----------------------------------------------------------------------------
(* C9: the color setting *)

NoAnsi(text) == \A i \in 1..Len(text) : text[i] \notin AnsiCodes

\* C9 (once the shell is constructed, which a missing --script file prevents):
\* use_color keeps the value given at construction; when it is off every
\* styling helper returns its message unchanged, nothing printed holds an
\* ANSI code and colorama is never initialised.
C9_ColorFixed ==
    pc # "main" /\ exc # "FileNotFoundError" =>
        /\ use_color = ~argv.no_color
        /\ ~use_color =>
              /\ ~colorama_ready
              /\ prompt = PromptText
              /\ intro = IntroText
              /\ \A i \in 1..Len(log) :
                    /\ NoAnsi(log[i].text)
                    /\ accent(use_color, log[i].text) = log[i].text
                    /\ emphasis(use_color, log[i].text) = log[i].text
                    /\ error(use_color, log[i].text) = log[i].text
                    /\ muted(use_color, log[i].text) = log[i].text

\* without color: a result, then an error, were printed plain
C9_Witness ==
    /\ pc = "repl"
    /\ ~use_color
    /\ argv.no_color
    /\ Has(log, "print", "error")
    /\ Has(log, "print", "prompt")

----------------------------------------------------------------------------
(* C11: the solve command *)

\* a variable name: identifier characters, not starting with a digit
IsName(t) ==
    /\ t # <<>>
    /\ \A i \in 1..Len(t) : t[i] \in IdentChars
    /\ ~IsDigit(t[1])

\* the names a field lists, separated by commas
NamesOf(field) == SelectSeq(MapStrip(Split(field, ",")), NonEmpty)

\* the field is a variable list: one or more names and nothing else
IsVariableList(field) ==
    /\ NamesOf(field) # <<>>
    /\ \A k \in 1..Len(NamesOf(field)) : IsName(NamesOf(field)[k])

\* the non-blank fields of an argument, trimmed, in order
FieldsOf(arg) ==
    [k \in 1..Cardinality(NonBlankFields(arg)) |->
        TrimmedField(arg, Kth(NonBlankFields(arg), k))]

SolveCalls(events) ==
    {i \in 1..Len(events) : events[i].ev = "call" /\ events[i].name = "solve_equations"}

\* the step is the solve command itself
SolveStep == DirectStep /\ Handlers(log)[1].name = "do_solve"

\* C11 as claimed: a trailing variable list after at least one equation is
\* passed as the variable list with exactly the fields before it as the
\* equations; a last field that is no variable list stays an equation; and
\* solve_equations is never called without an equation.
C11_SolveArguments ==
    SolveStep =>
        LET fields == FieldsOf(Handlers(log)[1].args[1])
            n      == Len(fields)
        IN  /\ \A i \in SolveCalls(log) : log[i].args[1] # <<>>
            /\ (n >= 2 /\ IsVariableList(fields[n])) =>
                  \E i \in SolveCalls(log) :
                      log[i].args = <<SubSeq(fields, 1, n - 1), NamesOf(fields[n])>>
            /\ (n >= 1 /\ ~IsVariableList(fields[n])) =>
                  \E i \in SolveCalls(log) : log[i].args = <<fields, <<>> >>
            /\ (n = 1 /\ IsVariableList(fields[1]) /\ HasChar(fields[1], ",")) =>
                  SolveCalls(log) = {} /\ Has(log, "print", "hint")

----------------------------------------------------------------------------
(* C12: the entry modes of main *)

\* --command or --script was given
ArgsGiven == argv.command # <<>> \/ argv.script # <<>>

\* the commands queued at the start: the --command entries in the order
\* given, then the commands of the --script file in file order (C6 is about
\* which lines of the file these are)
QueuedAtStart ==
    argv.command \o (IF argv.script # <<>>
                     THEN load_commands_from_file(read_text(argv.script))
                     ELSE <<>>)

\* main has run and found the --script file, if one was named
Started == pc # "main" /\ exc # "FileNotFoundError"

\* the interactive loop was entered: its intro or its prompt was written
Interactive == pc = "repl" \/ Has(log, "print", "prompt") \/ Has(log, "print", "intro")

\* C12 as claimed: the REPL is entered exactly when neither --command nor
\* --script was given; otherwise the queued commands are dispatched in
\* order, the commands left being the queue behind the one dispatched last,
\* and no interactive input is read.
C12_EntryModes ==
    Started =>
        /\ Interactive <=> ~ArgsGiven
        /\ (ArgsGiven /\ pc \in {"list", "done"}) =>
              LET k == Len(QueuedAtStart) - Len(queue)
              IN  /\ k >= 0
                  /\ queue = SubSeq(QueuedAtStart, k + 1, Len(QueuedAtStart))
                  /\ k > 0 => line = QueuedAtStart[k]
                  /\ pc = "done" => queue = <<>>

\* C12 without the case of a --script file that holds no command
C12_ScriptWithCommands ==
    (Started /\ QueuedAtStart # <<>>) => C12_EntryModes

====
